---- MODULE Spec2Model ----
(***************************************************************************)
(* mod_auth_web: URL-based authentication for ProFTPD.                     *)
(*                                                                         *)
(* One FTP session (one ProFTPD child process) is modelled.  The module's  *)
(* file-scope statics are the state; the session-init function has filled  *)
(* the configuration statics from the parsed configuration.  The two       *)
(* authentication handlers (getpwnam, auth) are invoked by the host, one    *)
(* at a time; while the auth handler is blocked in curl_easy_perform,       *)
(* libcurl calls the header and the body callback.                          *)
(*                                                                         *)
(* C strings are sequences of byte values without the terminating NUL; a    *)
(* pointer is a sequence of length 0 (NULL) or 1 (pointing to its element). *)
(***************************************************************************)
EXTENDS Integers, Sequences, FiniteSets, TLC

----------------------------------------------------------------------------
(* Bounds of the model.                                                    *)

\* auth handler invocations in the session (PASS commands)
MaxAttempts == 2
\* header lines libcurl delivers in the session
MaxHdrs == 2
\* body chunks libcurl delivers in the session
MaxChunks == 2

----------------------------------------------------------------------------
(* Bytes.                                                                  *)

NUL == 0
LF == 10
CR == 13
SPACE == 32
PERCENT == 37
AMP == 38
PLUS == 43
DASH == 45
DOT == 46
EQUALS == 61
UNDERSCORE == 95

NULL == <<>>
Ptr(v) == <<v>>
Deref(p) == p[1]

Min(a, b) == IF a < b THEN a ELSE b

\* the texts the configuration, the client and the verifier use
str_A == <<65>>
str_B == <<66>>
str_F == <<70>>
str_L == <<76>>
str_FL == <<70, 76>>
str_a == <<97>>
str_b == <<98>>
str_f == <<102>>
str_p == <<112>>
str_u == <<117>>
str_url == <<104>>
str_err == <<101>>

----------------------------------------------------------------------------
(* libc and ProFTPD string primitives, as the module uses them.            *)

\* strlen of the C string held in a buffer of Len(buf) bytes
CStrLen(buf) ==
  IF \E i \in 1..Len(buf) : buf[i] = NUL
  THEN (CHOOSE i \in 1..Len(buf) :
          buf[i] = NUL /\ \A j \in 1..(i - 1) : buf[j] # NUL) - 1
  ELSE Len(buf)

\* pstrndup(pool, str, n): at most n bytes, up to the first NUL
pstrndup(str, n) ==
  LET m == Min(n, Len(str)) IN SubSeq(str, 1, CStrLen(SubSeq(str, 1, m)))

\* pstrcat(pool, a, b, NULL): the argument list ends at the first NULL
\* pointer, so a NULL first argument ends it before b is seen.
pstrcat(a, b) ==
  IF a = NULL THEN Ptr(<<>>) ELSE Ptr(Deref(a) \o b)

\* strstr(haystack, needle) != NULL
strstr(haystack, needle) ==
  \E i \in 0..(Len(haystack) - Len(needle)) :
     SubSeq(haystack, i + 1, i + Len(needle)) = needle

\* strcmp(a, b) == 0
strcmp0(a, b) == a = b

isalnum(c) ==
  \/ c \in 48..57
  \/ c \in 65..90
  \/ c \in 97..122

tolower(c) == IF c \in 65..90 THEN c + 32 ELSE c

ToLower(s) == [i \in 1..Len(s) |-> tolower(s[i])]

\* snprintf(dst, size, ...): at most size - 1 bytes of the formatted text
snprintf(size, text) == SubSeq(text, 1, Min(Len(text), size - 1))

----------------------------------------------------------------------------
(* urlencode                                                               *)

HexDigit(d) == IF d < 10 THEN 48 + d ELSE 87 + d

RECURSIVE HexStr(_)
HexStr(v) ==
  IF v < 16 THEN <<HexDigit(v)>> ELSE HexStr(v \div 16) \o <<HexDigit(v % 16)>>

\* the text "%02x" formats for the int a char promotes to.  Where plain char
\* is signed, a byte above 0x7f promotes to a negative int, which %x prints
\* as the 8 digits of its 32-bit two's complement: ffffffXX.
Fmt02x(c, char_signed) ==
  IF char_signed /\ c >= 128
  THEN <<102, 102, 102, 102, 102, 102>> \o HexStr(c)
  ELSE IF c < 16 THEN <<48>> \o HexStr(c) ELSE HexStr(c)

NeedsEscape(c) ==
  ~(isalnum(c) \/ c = DASH \/ c = UNDERSCORE \/ c = DOT \/ c = SPACE)

\* the bytes the second loop writes for one input byte
EncodeByte(c, char_signed) ==
  IF isalnum(c) \/ c = DASH \/ c = UNDERSCORE \/ c = DOT THEN <<c>>
  ELSE IF c = SPACE THEN <<PLUS>>
  ELSE <<PERCENT>> \o snprintf(3, Fmt02x(c, char_signed))

\* lines 135-146: the size of the buffer urlencode allocates for a C string
UrlencodeAlloc(str) ==
  Len(str) + 2 * Cardinality({i \in 1..Len(str) : NeedsEscape(str[i])}) + 1

RECURSIVE urlencode(_, _)
urlencode(str, char_signed) ==
  IF str = <<>> \/ Head(str) = NUL THEN <<>>
  ELSE EncodeByte(Head(str), char_signed) \o urlencode(Tail(str), char_signed)

----------------------------------------------------------------------------
(* The configuration the session-init function reads, and the local        *)
(* account store.                                                          *)

\* AuthWebUserRegex is compiled REG_ICASE | REG_EXTENDED | REG_NOSUB and run
\* with regexec, which searches.  The configured patterns are literals, so a
\* match is a case-insensitive occurrence of the pattern in the string.
pr_regexp_exec(creg, str) ==
  IF strstr(ToLower(str), ToLower(creg)) THEN 0 ELSE 1

UserRegexes == {NULL, Ptr(str_a)}
Urls == {NULL, Ptr(str_url)}
UserParamNames == {NULL, Ptr(str_u)}
PassParamNames == {NULL, Ptr(str_p)}
FailedStrings == {NULL, Ptr(str_FL)}
RequiredHeaderSets == {NULL, Ptr(<<str_A, str_B>>)}
LocalUsers == {NULL, Ptr(str_f)}

\* The local account store is the host's: at the time of a lookup the account
\* is there, with this record, or it is not.
PasswdEntry(name) ==
  [pw_name |-> name, pw_passwd |-> "x", pw_uid |-> 14, pw_gid |-> 50,
   pw_gecos |-> "FTP User", pw_dir |-> "/var/ftp", pw_shell |-> "/sbin/nologin"]

\* the values getpwnam(name) can return
getpwnam(name) == {NULL, Ptr(PasswdEntry(name))}

\* what the client sends with USER and PASS
Usernames == {str_A, str_b}
Passwords == {str_p, <<SPACE, PERCENT>>}

\* what the verifier's response arrives as
HeaderLines == {str_A \o <<CR, LF>>, str_B \o <<CR, LF>>}
BodyChunks == {str_F, str_L, str_FL, <<NUL>> \o str_FL}

\* What an undefined operation can come to.  Reading through a NULL pointer or
\* outside a buffer either faults, which ends the session process, or yields
\* whatever the memory holds.
EvalUBOutcomes == {"Crash", "HANDLED", "ERROR"}
CopyUBOutcomes == {"Crash", "Garbage"}
\* pr_log_pri(priority, MOD_AUTH_WEB_VERSION ": " format, arguments...)
LogEntry(priority, format, arguments) ==
  [pri |-> priority, fmt |-> format, args |-> arguments]

\* lines 53 and 188
LogNoMatch == LogEntry("DEBUG", "user doesn't match regex", <<>>)

GarbagePasswd ==
  [pw_name |-> <<>>, pw_passwd |-> "?", pw_uid |-> -1, pw_gid |-> -1,
   pw_gecos |-> "?", pw_dir |-> "?", pw_shell |-> "?"]

----------------------------------------------------------------------------
VARIABLES
  \* configuration statics (lines 29-34)
  url, user_param_name, pass_param_name, local_user, failed_string,
  required_headers, user_creg,
  \* response statics (lines 32, 35)
  received_headers, response_data,
  \* session.auth_mech
  session_auth_mech,
  \* the handler being or last run, its arguments and what it returned
  pc, handler, cmd, ret, pw, looked_up,
  \* locals of handle_auth_web_auth
  escaped, post_data, success,
  \* history: invocations and deliveries so far, and what the current HTTP
  \* call itself has received
  nattempts, nhdrs, nchunks, ncalls, call_body, call_hdr_from,
  \* what the current invocation has sent to the log, the raw header lines its
  \* HTTP call has delivered, and the username an auth invocation accepted
  log, call_lines, accepted_user

config == <<url, user_param_name, pass_param_name, local_user, failed_string,
            required_headers, user_creg>>
response == <<received_headers, response_data>>
control == <<pc, handler, cmd, ret, pw, looked_up, escaped, post_data, success>>
history == <<nattempts, nhdrs, nchunks, ncalls, call_body, call_hdr_from>>
journal == <<log, call_lines, accepted_user>>
vars == <<config, response, session_auth_mech, control, history, journal>>

\* the completeness test without its last line
ConfigUsable_NoDetectorTest ==
  /\ url # NULL
  /\ user_param_name # NULL
  /\ pass_param_name # NULL
  /\ local_user # NULL

\* the test at lines 47-48 and 182-183, negated
ConfigUsable ==
  /\ url # NULL
  /\ user_param_name # NULL
  /\ pass_param_name # NULL
  /\ local_user # NULL
  /\ (failed_string # NULL \/ required_headers # NULL)

\* the regex test taking regexec's 0 for "no match"
RegexRejects_Inverted(username) ==
  user_creg # NULL /\ pr_regexp_exec(Deref(user_creg), username) = 0

\* the test at lines 51-52 and 186-187
RegexRejects(username) ==
  user_creg # NULL /\ pr_regexp_exec(Deref(user_creg), username) # 0

\* received_headers->nelts, where there is an array
NumReceived == IF received_headers = NULL THEN 0 ELSE Len(Deref(received_headers))

Init ==
  /\ url \in Urls
  /\ user_param_name \in UserParamNames
  /\ pass_param_name \in PassParamNames
  /\ failed_string \in FailedStrings
  /\ local_user \in LocalUsers
  /\ user_creg \in UserRegexes
  /\ required_headers \in RequiredHeaderSets
  /\ received_headers = NULL
  /\ response_data = NULL
  /\ session_auth_mech = NULL
  /\ pc = "idle"
  /\ handler = "none"
  /\ cmd = <<>>
  /\ ret = "none"
  /\ pw = NULL
  /\ looked_up = NULL
  /\ escaped = <<>>
  /\ post_data = NULL
  /\ success = "none"
  /\ nattempts = 0
  /\ nhdrs = 0
  /\ nchunks = 0
  /\ ncalls = 0
  /\ call_body = <<>>
  /\ call_hdr_from = 0
  /\ log = <<>>
  /\ call_lines = <<>>
  /\ accepted_user = NULL

----------------------------------------------------------------------------
(* handle_auth_web_getpwnam (lines 42-69)                                  *)
(* The pool allocators end the process rather than return NULL, and         *)
(* pstrdup and pstrndup return NULL only for a NULL argument, so the        *)
(* allocation-failure returns (lines 59-61, 65-67, 91-93, 99-101, 121-123,  *)
(* 213-215) are not taken.                                                  *)

\* the copy left under the local user's name
Materialize_NoRename(record, username) == record

\* lines 63-64: the copy of the looked-up record, with its pw_name replaced
Materialize(record, username) == [record EXCEPT !.pw_name = username]

GetPwnam(username) ==
  /\ pc = "idle"
  /\ handler' = "getpwnam"
  /\ cmd' = <<username>>
  /\ IF ~ConfigUsable \/ RegexRejects(username)
     THEN /\ ret' = "DECLINED"
          /\ pw' = NULL
          /\ looked_up' = NULL
          /\ pc' = "idle"
     ELSE \E found \in getpwnam(Deref(local_user)) :
          /\ looked_up' = found
          /\ IF found = NULL
             THEN \* line 63: memcpy from a NULL source
                  \E out \in CopyUBOutcomes :
                     IF out = "Crash"
                     THEN /\ pc' = "crashed"
                          /\ ret' = "none"
                          /\ pw' = NULL
                     ELSE /\ pc' = "idle"
                          /\ ret' = "HANDLED"
                          /\ pw' = Ptr(Materialize(GarbagePasswd, username))
             ELSE /\ pc' = "idle"
                  /\ ret' = "HANDLED"
                  /\ pw' = Ptr(Materialize(Deref(found), username))
  /\ escaped' = <<>>
  /\ post_data' = NULL
  /\ success' = "none"
  /\ ncalls' = 0
  /\ call_body' = <<>>
  /\ call_hdr_from' = NumReceived
  /\ log' = IF ConfigUsable /\ RegexRejects(username) THEN <<LogNoMatch>> ELSE <<>>
  /\ call_lines' = <<>>
  /\ UNCHANGED <<config, response, session_auth_mech, nattempts, nhdrs, nchunks,
                 accepted_user>>

----------------------------------------------------------------------------
(* handle_auth_web_auth up to curl_easy_perform (lines 170-222)            *)

\* BuildPostData with a length that leaves no room for the terminator
BuildPostData_NoTerminator(username, password, char_signed) ==
  LET escaped_username == urlencode(username, char_signed)
      escaped_password == urlencode(password, char_signed)
      post_data_len ==
        Len(Deref(user_param_name)) + 1 + Len(escaped_username) + 1 +
        Len(Deref(pass_param_name)) + 1 + Len(escaped_password)
  IN  snprintf(post_data_len,
               Deref(user_param_name) \o <<EQUALS>> \o escaped_username \o <<AMP>> \o
               Deref(pass_param_name) \o <<EQUALS>> \o escaped_password)

\* lines 193-194 and 208-218
BuildPostData(username, password, char_signed) ==
  LET escaped_username == urlencode(username, char_signed)
      escaped_password == urlencode(password, char_signed)
      post_data_len ==
        Len(Deref(user_param_name)) + 1 + Len(escaped_username) + 1 +
        Len(Deref(pass_param_name)) + 1 + Len(escaped_password) + 1
  IN  snprintf(post_data_len,
               Deref(user_param_name) \o <<EQUALS>> \o escaped_username \o <<AMP>> \o
               Deref(pass_param_name) \o <<EQUALS>> \o escaped_password)

\* The host runs the auth handlers for a PASS command, which it takes only
\* while the session is not logged in.
AuthBegin(username, password) ==
  /\ pc = "idle"
  /\ session_auth_mech = NULL
  /\ nattempts < MaxAttempts
  /\ nattempts' = nattempts + 1
  /\ handler' = "auth"
  /\ cmd' = <<username, password>>
  /\ pw' = NULL
  /\ looked_up' = NULL
  /\ success' = "none"
  /\ call_body' = <<>>
  /\ call_hdr_from' = NumReceived
  /\ IF ~ConfigUsable \/ RegexRejects(username)
     THEN /\ ret' = "DECLINED"
          /\ pc' = "idle"
          /\ escaped' = <<>>
          /\ post_data' = NULL
          /\ ncalls' = 0
          /\ log' = IF ConfigUsable THEN <<LogNoMatch>> ELSE <<>>
     ELSE /\ \E char_signed \in BOOLEAN :
               \* lines 193-194
               /\ escaped' = <<urlencode(username, char_signed),
                               urlencode(password, char_signed)>>
               /\ post_data' = Ptr(BuildPostData(username, password, char_signed))
          \* line 221
          /\ log' = <<LogEntry("DEBUG", "calling URL %s with POST data %s",
                               <<Deref(url), Deref(post_data')>>)>>
          /\ ret' = "none"
          /\ pc' = "perform"
          /\ ncalls' = 1
  /\ call_lines' = <<>>
  /\ UNCHANGED <<config, response, session_auth_mech, nhdrs, nchunks, accepted_user>>

----------------------------------------------------------------------------
(* The callbacks libcurl runs during curl_easy_perform.                    *)

IsEol(c) == c = CR \/ c = LF

\* copy_len after the test at lines 83-85, given one was read
CopyLen1(buffer) ==
  IF IsEol(buffer[Len(buffer)]) THEN Len(buffer) - 1 ELSE Len(buffer)

\* copy_len after the test at lines 86-88
CopyLen2(buffer) ==
  LET n == CopyLen1(buffer) IN IF IsEol(buffer[n]) THEN n - 1 ELSE n

\* str[copy_len - 1] is read with copy_len = 0, at line 83 or at line 86
HeaderReadOutOfBounds(buffer) ==
  Len(buffer) = 0 \/ CopyLen1(buffer) = 0

\* line 90
HeaderEntry(buffer) == pstrndup(buffer, CopyLen2(buffer))

\* line 94
LogReceived(str) == LogEntry("DEBUG", "received response header: %s", <<str>>)

\* lines 96-103
PushReceived(str) ==
  IF received_headers = NULL THEN Ptr(<<str>>)
  ELSE Ptr(Append(Deref(received_headers), str))

\* get_response_headers (lines 71-106)
DeliverHeader(buffer) ==
  /\ pc = "perform"
  /\ nhdrs < MaxHdrs
  /\ nhdrs' = nhdrs + 1
  /\ IF HeaderReadOutOfBounds(buffer)
     THEN \E out \in CopyUBOutcomes :
             IF out = "Crash"
             THEN /\ pc' = "crashed"
                  /\ UNCHANGED <<received_headers, log>>
             ELSE \* the byte read is no CR or LF: copy_len stays 0
                  /\ pc' = pc
                  /\ received_headers' = PushReceived(<<>>)
                  /\ log' = Append(log, LogReceived(<<>>))
     ELSE /\ pc' = pc
          /\ received_headers' = PushReceived(HeaderEntry(buffer))
          /\ log' = Append(log, LogReceived(HeaderEntry(buffer)))
  /\ call_lines' = Append(call_lines, buffer)
  /\ UNCHANGED accepted_user
  /\ UNCHANGED <<config, response_data, session_auth_mech, handler, cmd, ret, pw,
                 looked_up, escaped, post_data, success, nattempts, nchunks, ncalls, call_body,
                 call_hdr_from>>

\* get_response_data (lines 108-127)
DeliverBody(buffer) ==
  /\ pc = "perform"
  /\ nchunks < MaxChunks
  /\ nchunks' = nchunks + 1
  /\ response_data' = pstrcat(response_data, pstrndup(buffer, Len(buffer)))
  /\ call_body' = call_body \o buffer
  /\ UNCHANGED <<config, received_headers, session_auth_mech, control, nattempts,
                 nhdrs, ncalls, call_hdr_from, journal>>

----------------------------------------------------------------------------
(* handle_auth_web_auth from the return of curl_easy_perform (222-262)     *)

\* the failure branch without its return: the response is evaluated anyway
PerformFail_FallsThrough ==
  /\ pc = "perform"
  /\ success' = "FAIL"
  /\ pc' = "idle"
  /\ ret' = IF \/ /\ failed_string # NULL
                   /\ response_data # NULL
                   /\ strstr(Deref(response_data), Deref(failed_string))
                \/ /\ required_headers # NULL
                   /\ \E i \in 1..Len(Deref(required_headers)) :
                        \A j \in 1..NumReceived :
                           Deref(required_headers)[i] # Deref(received_headers)[j]
             THEN "ERROR" ELSE "HANDLED"
  /\ log' = Append(log, LogEntry("ERR", "URL call failed: %s", <<str_err>>))
  /\ UNCHANGED <<config, response, session_auth_mech, handler, cmd, pw, looked_up,
                 escaped, post_data, history, call_lines, accepted_user>>

\* lines 225-229
PerformFail ==
  /\ pc = "perform"
  /\ success' = "FAIL"
  /\ ret' = "DECLINED"
  /\ pc' = "idle"
  /\ log' = Append(log, LogEntry("ERR", "URL call failed: %s", <<str_err>>))
  /\ UNCHANGED <<config, response, session_auth_mech, handler, cmd, pw, looked_up,
                 escaped, post_data, history, call_lines, accepted_user>>

\* line 231
FailedStringFound ==
  /\ failed_string # NULL
  /\ response_data # NULL
  /\ strstr(Deref(response_data), Deref(failed_string))

\* lines 242-257, given both arrays exist
RequiredHeaderMissing ==
  LET required == Deref(required_headers)
      received == Deref(received_headers)
  IN  \E i \in 1..Len(required) :
         ~\E j \in 1..Len(received) : strcmp0(required[i], received[j])

\* lines 231-261: the value returned, or "UB" where received_headers is
\* dereferenced while NULL (lines 239-240)
Evaluate ==
  IF FailedStringFound THEN "ERROR"
  ELSE IF required_headers # NULL
       THEN IF received_headers = NULL THEN "UB"
            ELSE IF RequiredHeaderMissing THEN "ERROR" ELSE "HANDLED"
       ELSE "HANDLED"

\* the return with the mechanism recorded whatever the value returned
Return_AlwaysMarks(value) ==
  IF value = "Crash"
  THEN /\ pc' = "crashed"
       /\ ret' = "none"
       /\ UNCHANGED <<session_auth_mech, accepted_user>>
  ELSE /\ pc' = "idle"
       /\ ret' = value
       /\ session_auth_mech' = Ptr("mod_auth_web.c")
       /\ accepted_user' = IF value = "HANDLED" THEN Ptr(cmd[1]) ELSE accepted_user

\* lines 233, 255 and 260-261, or the end of the process
Return(value) ==
  IF value = "Crash"
  THEN /\ pc' = "crashed"
       /\ ret' = "none"
       /\ UNCHANGED <<session_auth_mech, accepted_user>>
  ELSE /\ pc' = "idle"
       /\ ret' = value
       /\ session_auth_mech' =
            IF value = "HANDLED" THEN Ptr("mod_auth_web.c") ELSE session_auth_mech
       /\ accepted_user' = IF value = "HANDLED" THEN Ptr(cmd[1]) ELSE accepted_user

\* the required headers the loop at lines 242-257 gets to: all of them, or
\* those up to the first that is missing
RequiredChecked ==
  LET required == Deref(required_headers)
      missing == {i \in 1..Len(required) :
                    \A j \in 1..NumReceived :
                       ~strcmp0(required[i], Deref(received_headers)[j])}
  IN  IF missing = {} THEN Len(required)
      ELSE CHOOSE i \in missing : \A k \in missing : i <= k

\* lines 224, 232, 243 and 254: what the evaluation sends to the log
EvaluateLog ==
  <<LogEntry("DEBUG", "URL call succeeded", <<>>)>> \o
  ( IF FailedStringFound
    THEN <<LogEntry("DEBUG", "found failed string '%s' in response",
                    <<Deref(failed_string)>>)>>
    ELSE IF required_headers # NULL /\ received_headers # NULL
    THEN [i \in 1..RequiredChecked |->
            LogEntry("DEBUG", "checking for header '%s' in response",
                     <<Deref(required_headers)[i]>>)] \o
         ( IF RequiredHeaderMissing
           THEN <<LogEntry("DEBUG", "couldn't find header '%s' in response",
                           <<Deref(required_headers)[RequiredChecked]>>)>>
           ELSE <<>> )
    ELSE <<>> )

PerformOK ==
  /\ pc = "perform"
  /\ success' = "OK"
  /\ IF Evaluate = "UB"
     THEN \E out \in EvalUBOutcomes : Return(out)
     ELSE Return(Evaluate)
  /\ log' = log \o EvaluateLog
  /\ UNCHANGED <<config, response, handler, cmd, pw, looked_up, escaped, post_data,
                 history, call_lines>>

----------------------------------------------------------------------------
Next ==
  \/ \E username \in Usernames : GetPwnam(username)
  \/ \E username \in Usernames, password \in Passwords : AuthBegin(username, password)
  \/ \E buffer \in HeaderLines : DeliverHeader(buffer)
  \/ \E buffer \in BodyChunks : DeliverBody(buffer)
  \/ PerformFail
  \/ PerformOK

Spec == Init /\ [][Next]_vars

----------------------------------------------------------------------------
(* The request builder on its own: one auth invocation, under a usable      *)
(* configuration without a username filter, for every single-byte username  *)
(* and a range of passwords.                                                *)

EncUsernames == {<<c>> : c \in 1..255}
EncPasswordBytes == {SPACE, PERCENT, 65, 233}
EncPasswords == {<<c, d>> : c \in EncPasswordBytes, d \in EncPasswordBytes}

InitEnc ==
  /\ Init
  /\ ConfigUsable
  /\ user_creg = NULL
  /\ failed_string # NULL
  /\ required_headers = NULL

NextEnc ==
  \E username \in EncUsernames, password \in EncPasswords :
     AuthBegin(username, password)

SpecEnc == InitEnc /\ [][NextEnc]_vars

----------------------------------------------------------------------------
(* The header callback on its own: one HTTP call during which libcurl       *)
(* delivers lines of every make-up of text, CR and LF, the empty delivery   *)
(* included.                                                                *)

RawBytes == {65, CR, LF}
RawHeaderLines ==
  {<<>>} \cup {<<c>> : c \in RawBytes}
         \cup {<<c, d>> : c \in RawBytes, d \in RawBytes}
         \cup {<<c, d, e>> : c \in RawBytes, d \in RawBytes, e \in RawBytes}

InitHdr ==
  /\ Init
  /\ ConfigUsable
  /\ user_creg = NULL
  /\ failed_string = NULL

NextHdr ==
  \/ AuthBegin(str_A, str_p)
  \/ \E buffer \in RawHeaderLines : DeliverHeader(buffer)

SpecHdr == InitHdr /\ [][NextHdr]_vars

TypeOK ==
  /\ pc \in {"idle", "perform", "crashed"}
  /\ ret \in {"none", "DECLINED", "ERROR", "HANDLED"}
  /\ success \in {"none", "OK", "FAIL"}

----------------------------------------------------------------------------
(* The properties.  They speak of the handler last invoked: its arguments  *)
(* (cmd), what it returned (ret), whether and how its HTTP call ended       *)
(* (ncalls, success) and what that call itself received (call_body,         *)
(* CallHeaders).  Accept is PR_HANDLED, Reject is PR_ERROR_INT with         *)
(* PR_AUTH_BADPWD, Abstain is PR_DECLINED.                                  *)

\* the configuration lacks a required option, or has no way to detect failure
Unconfigured ==
  \/ url = NULL
  \/ user_param_name = NULL
  \/ pass_param_name = NULL
  \/ local_user = NULL
  \/ (failed_string = NULL /\ required_headers = NULL)

\* the username of the invocation does not match the configured regex
FilteredOut ==
  /\ user_creg # NULL
  /\ cmd # <<>>
  /\ pr_regexp_exec(Deref(user_creg), cmd[1]) # 0

\* the header entries stored during the current HTTP call
CallHeaders ==
  IF received_headers = NULL THEN <<>>
  ELSE SubSeq(Deref(received_headers), call_hdr_from + 1, NumReceived)

\* the entries the required headers are matched against (lines 240-251)
MatchedHeaders == IF received_headers = NULL THEN <<>> ELSE Deref(received_headers)

\* the body the failure-string test examines (line 231)
ExaminedBody == IF response_data = NULL THEN <<>> ELSE Deref(response_data)

AuthReturnedAfterCall == handler = "auth" /\ success = "OK"

\* some required header equals none of the lines in hdrs
SomeRequiredAbsentFrom(hdrs) ==
  /\ required_headers # NULL
  /\ \E i \in 1..Len(Deref(required_headers)) :
        \A j \in 1..Len(hdrs) : Deref(required_headers)[i] # hdrs[j]

\* C1: with a configuration that lacks the endpoint URL, a parameter name or
\* the local user, or that has neither a failure string nor required headers,
\* every invocation returns Abstain and no HTTP call is made: the handler is
\* never inside curl_easy_perform, nothing is built for it and nothing is
\* ever received.
C1_UnconfiguredAbstains ==
  Unconfigured =>
    /\ pc = "idle"
    /\ handler # "none" => ret = "DECLINED"
    /\ ncalls = 0
    /\ post_data = NULL
    /\ nhdrs = 0 /\ nchunks = 0
    /\ received_headers = NULL /\ response_data = NULL
    /\ session_auth_mech = NULL

\* an auth invocation was declined although only the failure criteria are unset
C1_Witness ==
  /\ url # NULL /\ user_param_name # NULL /\ pass_param_name # NULL
  /\ local_user # NULL
  /\ failed_string = NULL /\ required_headers = NULL
  /\ handler = "auth"
  /\ nattempts = MaxAttempts
  /\ ret = "DECLINED"

\* C2: with a usable configuration and a username regex, an auth invocation
\* whose username does not match the regex returns Abstain without an HTTP
\* call, whatever the password.
C2_FilteredOutAbstains ==
  (handler = "auth" /\ ~Unconfigured /\ FilteredOut) =>
    /\ pc = "idle"
    /\ ret = "DECLINED"
    /\ ncalls = 0
    /\ post_data = NULL
    /\ success = "none"

\* a non-matching username was declined, with the second password
C2_Witness ==
  /\ handler = "auth" /\ ~Unconfigured /\ FilteredOut
  /\ cmd[2] = <<SPACE, PERCENT>>
  /\ ret = "DECLINED"

\* C3: when the HTTP call of an attempt ends in a transport failure, the
\* attempt returns Abstain (not Reject, not Accept), whatever was delivered to
\* the callbacks before the failure and whatever the failure string and the
\* required headers are.
C3_TransportFailureAbstains ==
  (handler = "auth" /\ success = "FAIL") =>
    /\ pc = "idle"
    /\ ret = "DECLINED"

\* a call failed after a body with the failure string in it had arrived and
\* while a required header was still missing
C3_Witness ==
  /\ handler = "auth" /\ success = "FAIL"
  /\ failed_string # NULL /\ required_headers # NULL
  /\ strstr(ExaminedBody, Deref(failed_string))
  /\ Len(CallHeaders) = 1
  /\ ret = "DECLINED"

\* C4: the body an attempt's evaluation examines is the concatenation of the
\* chunks its own HTTP call received and holds nothing received during another
\* attempt.  Stated here in the part that speaks of other attempts: what is
\* examined after a call occurs within what that call received.
C4_NoForeignBody ==
  (AuthReturnedAfterCall /\ failed_string # NULL) => strstr(call_body, ExaminedBody)

\* C5: the header lines an attempt's required headers are matched against are
\* the lines received during that attempt's own HTTP call.
C5_HeadersPerCall ==
  (AuthReturnedAfterCall /\ required_headers # NULL) => MatchedHeaders = CallHeaders

\* C6: with a failure string configured, a successful call whose response body
\* contains the failure string is rejected, whatever the required headers.
C6_FailureStringRejects ==
  ( /\ AuthReturnedAfterCall
    /\ failed_string # NULL
    /\ strstr(call_body, Deref(failed_string)) ) =>
    ret = "ERROR"

\* C7: with required headers configured, a successful call in whose received
\* header lines (none at all included) some required header has no equal is
\* rejected.
C7_MissingHeaderRejects ==
  (AuthReturnedAfterCall /\ SomeRequiredAbsentFrom(CallHeaders)) =>
    ret = "ERROR"

\* C8: a successful call whose body does not contain the configured failure
\* string (or none is configured) and whose header lines hold every required
\* header (or none is configured) is accepted.
C8_NoEvidenceAccepts ==
  ( /\ AuthReturnedAfterCall
    /\ (failed_string = NULL \/ ~strstr(call_body, Deref(failed_string)))
    /\ ~SomeRequiredAbsentFrom(CallHeaders) ) =>
    ret = "HANDLED"

\* C9: when the lookup of the local user returns no record, the getpwnam
\* handler returns Abstain and produces no user record.
C9_MissingLocalUserAbstains ==
  ( /\ handler = "getpwnam"
    /\ ~Unconfigured /\ ~FilteredOut
    /\ looked_up = NULL ) =>
    /\ pc = "idle"
    /\ ret = "DECLINED"
    /\ pw = NULL

\* C10: every invocation of either handler returns one of Accept, Reject and
\* Abstain; none ends in a crash.
C10_NeverFailsOutright ==
  /\ pc # "crashed"
  /\ (pc = "idle" /\ handler # "none") => ret \in {"HANDLED", "ERROR", "DECLINED"}

\* the password of the auth invocation, as sent by the client and as encoded
\* for the form body
PasswordForms ==
  {cmd[2]} \cup {urlencode(cmd[2], char_signed) : char_signed \in BOOLEAN}

\* C11: no message an auth invocation sends to the log contains the
\* attempt's password, raw or form-encoded.
C11_PasswordNeverLogged ==
  handler = "auth" =>
    \A i \in 1..Len(log) : \A k \in 1..Len(log[i].args) :
       \A form \in PasswordForms : ~strstr(log[i].args[k], form)

\* C12, as claimed: the getpwnam handler produces a user record for a username
\* only after an auth invocation for that username was accepted.
C12_RecordOnlyAfterAccept ==
  (handler = "getpwnam" /\ looked_up # NULL /\ pw # NULL) =>
    accepted_user = Ptr(cmd[1])

\* C12, amended: a user record is produced only by the getpwnam handler and
\* only for a username that passes the configuration gate and the username
\* filter; it carries that username.  No accepted authentication is needed.
C12_RecordOnlyThroughGates ==
  pw # NULL =>
    /\ handler = "getpwnam"
    /\ ret = "HANDLED"
    /\ ~Unconfigured
    /\ ~FilteredOut
    /\ Deref(pw).pw_name = cmd[1]

\* a record was produced from the local account before any auth invocation
C12_Witness ==
  /\ handler = "getpwnam"
  /\ looked_up # NULL
  /\ pw # NULL
  /\ user_creg # NULL
  /\ nattempts = 0
  /\ accepted_user = NULL

----------------------------------------------------------------------------
(* The request body                                                         *)

\* the two lowercase hexadecimal digits of a byte value
TwoHexDigits(c) == <<HexDigit(c \div 16), HexDigit(c % 16)>>

\* the per-byte mapping as documented
DocumentedByte(c) ==
  IF isalnum(c) \/ c \in {DASH, UNDERSCORE, DOT} THEN <<c>>
  ELSE IF c = SPACE THEN <<PLUS>>
  ELSE <<PERCENT>> \o TwoHexDigits(c)

RECURSIVE DocumentedEncoding(_)
DocumentedEncoding(str) ==
  IF str = <<>> THEN <<>>
  ELSE DocumentedByte(Head(str)) \o DocumentedEncoding(Tail(str))

\* C13: urlencode maps each byte on its own: alphanumerics, '-', '_' and '.'
\* unchanged, a space to '+', every other non-NUL byte to '%' and the two
\* lowercase hex digits of its value, so single bytes encode injectively.
C13_EncodesEachByte ==
  escaped # <<>> =>
    /\ escaped[1] = DocumentedEncoding(cmd[1])
    /\ escaped[2] = DocumentedEncoding(cmd[2])

\* C14: the POST body handed to the transport is exactly
\* <user param>=<urlencode(username)>&<pass param>=<urlencode(password)>,
\* untruncated; the buffers of lines 146 and 209-212 hold what is written to
\* them, and the length the transport sends, the body's C string length, is
\* the length of that string.
C14_PostBodyExact ==
  post_data # NULL =>
    /\ \E char_signed \in BOOLEAN :
         /\ escaped[1] = urlencode(cmd[1], char_signed)
         /\ escaped[2] = urlencode(cmd[2], char_signed)
    /\ Len(escaped[1]) + 1 <= UrlencodeAlloc(cmd[1])
    /\ Len(escaped[2]) + 1 <= UrlencodeAlloc(cmd[2])
    /\ Deref(post_data) =
         Deref(user_param_name) \o <<EQUALS>> \o escaped[1] \o <<AMP>> \o
         Deref(pass_param_name) \o <<EQUALS>> \o escaped[2]
    /\ CStrLen(Deref(post_data)) = Len(Deref(post_data))

\* a body was built from a username and a password that both need escaping
C14_Witness ==
  /\ pc = "perform"
  /\ post_data # NULL
  /\ NeedsEscape(cmd[1][1])
  /\ cmd[2] = <<SPACE, PERCENT>>
  /\ Len(escaped[2]) = 4

\* C15: body chunks are not evaluated in isolation: however the body of a call
\* was split into chunks, the failure-string test made after the call gives
\* the result it would give on the unsplit body.  Stated for the first call
\* of a session whose body arrived in two chunks, with the failure string as
\* the only evidence configured.
C15_SplitBodyEvaluatedWhole ==
  ( /\ AuthReturnedAfterCall
    /\ failed_string # NULL
    /\ required_headers = NULL
    /\ nattempts = 1
    /\ nchunks = 2 ) =>
    /\ strstr(ExaminedBody, Deref(failed_string))
          <=> strstr(call_body, Deref(failed_string))
    /\ strstr(call_body, Deref(failed_string)) => ret = "ERROR"

\* the steps of one auth invocation, in the order the claim names them
EntersRequesting == pc # "perform" /\ pc' = "perform"
LeavesRequesting == pc = "perform" /\ pc' # "perform"
ReachesVerdict == handler' = "auth" /\ ret' \in {"ERROR", "HANDLED"} /\ ret # ret'
Terminal == handler = "auth" /\ pc = "idle"
NewInvocation == nattempts' = nattempts + 1 \/ handler' = "getpwnam"

\* C16: an auth invocation goes gate check, request, evaluation, decision:
\* the HTTP call is made at most once per invocation and only after the
\* configuration gate and the username filter have passed; the evaluation,
\* the only source of Reject and Accept, happens only after that call returned
\* success; and after the decision nothing more happens in the invocation.
C16_StateOrder ==
  [][ /\ EntersRequesting =>
           /\ pc = "idle" /\ NewInvocation /\ handler' = "auth"
           /\ ~Unconfigured' /\ ~FilteredOut'
           /\ ncalls' = 1
           /\ ret' = "none" /\ success' = "none"
      /\ ncalls' <= 1
      /\ ncalls' # ncalls => (EntersRequesting \/ ncalls' = 0)
      /\ pc = "perform" => (handler' = handler /\ cmd' = cmd /\ ncalls' = ncalls)
      /\ LeavesRequesting => success' \in {"OK", "FAIL"}
      /\ ReachesVerdict => (LeavesRequesting /\ success' = "OK")
      /\ (handler' = "auth" /\ success' # "OK") => ret' \in {"none", "DECLINED"}
      /\ Terminal => NewInvocation
    ]_vars

\* an invocation went through both gates, made its call, evaluated the
\* response and decided
C16_Witness ==
  /\ Terminal
  /\ user_creg # NULL
  /\ ncalls = 1
  /\ success = "OK"
  /\ nhdrs > 0 /\ nchunks > 0
  /\ ret = "ERROR"

\* C17: where the local user has an account, the record the getpwnam handler
\* produces has the account's uid, gid, home directory, shell, password and
\* gecos fields and the attempted username as its name; the record the account
\* store returned still is the local user's.
C17_RecordClonedAndRenamed ==
  (handler = "getpwnam" /\ looked_up # NULL /\ pc = "idle" /\ ret = "HANDLED") =>
    /\ pw # NULL
    /\ Deref(pw).pw_uid = Deref(looked_up).pw_uid
    /\ Deref(pw).pw_gid = Deref(looked_up).pw_gid
    /\ Deref(pw).pw_dir = Deref(looked_up).pw_dir
    /\ Deref(pw).pw_shell = Deref(looked_up).pw_shell
    /\ Deref(pw).pw_passwd = Deref(looked_up).pw_passwd
    /\ Deref(pw).pw_gecos = Deref(looked_up).pw_gecos
    /\ Deref(pw).pw_name = cmd[1]
    /\ Deref(looked_up) = PasswdEntry(Deref(local_user))

\* a record was produced under a name other than the local user's
C17_Witness ==
  /\ handler = "getpwnam"
  /\ looked_up # NULL
  /\ ret = "HANDLED"
  /\ pw # NULL
  /\ Deref(pw).pw_name = str_b
  /\ Deref(looked_up).pw_name = str_f
  /\ Deref(pw).pw_uid = 14

\* entry is line without its last k bytes, all of them CR or LF
TrimmedBy(line, entry, k) ==
  /\ k <= Len(line)
  /\ entry = SubSeq(line, 1, Len(line) - k)
  /\ \A i \in (Len(line) - k + 1)..Len(line) : IsEol(line[i])

\* C18: for every line delivered to get_response_headers, a lone CR or LF and
\* the empty delivery included, one entry is stored per delivery, in order of
\* arrival, each being the delivered bytes without at most two trailing CR or
\* LF characters, and no byte outside the delivered buffer is read.
C18_HeaderStoredTrimmed ==
  handler = "auth" =>
    /\ success = "none" => pc # "crashed"
    /\ Len(CallHeaders) = Len(call_lines)
    /\ \A i \in 1..Len(call_lines) :
         /\ ~HeaderReadOutOfBounds(call_lines[i])
         /\ i <= Len(CallHeaders) =>
              \E k \in 0..2 : TrimmedBy(call_lines[i], CallHeaders[i], k)

\* the auth handler returns Accept
Accepts == handler' = "auth" /\ pc = "perform" /\ pc' = "idle" /\ ret' = "HANDLED"

\* C19: session.auth_mech is set to "mod_auth_web.c" exactly when the auth
\* handler returns Accept; every other step, the Abstain and Reject returns of
\* both gates, of the transport failure, of a failure string found and of a
\* required header missing among them, leaves it as it was.
C19_AuthMechIffAccept ==
  [][ /\ Accepts => session_auth_mech' = Ptr("mod_auth_web.c")
      /\ ~Accepts => session_auth_mech' = session_auth_mech
      /\ (handler' = "auth" /\ pc' = "idle") =>
            (ret' = "HANDLED" <=> session_auth_mech' = Ptr("mod_auth_web.c"))
    ]_vars

\* an attempt was accepted after an earlier one of the session was rejected
C19_Witness ==
  /\ handler = "auth"
  /\ pc = "idle"
  /\ ret = "HANDLED"
  /\ nattempts = 2
  /\ session_auth_mech = Ptr("mod_auth_web.c")

====
